---- MODULE Spec2Model ----
(***************************************************************************)
(* Model of the log-analyzer service (services/log-analyzer/app.py with    *)
(* services/log-analyzer/anomaly_detector.py) and of the two versions of   *)
(* the prompt-enrichment service (services/prompt_enhancer.py and          *)
(* services/prompt-enhancer.py).                                           *)
(*                                                                         *)
(* The log analyzer is served by worker threads that share the             *)
(* module-level detector of app.py:12.  A thread's steps are split where   *)
(* it touches the shared detector: entering model.fit, leaving model.fit,  *)
(* the store to is_fitted, and predict.  Everything a handler does between *)
(* two such points is local to the request and belongs to one action.      *)
(***************************************************************************)
EXTENDS Integers, Sequences, FiniteSets, TLC

\* ------------------------------------------------------------------ bounds

\* Number of worker threads serving requests concurrently.
NumThreads == 2
\* Largest number of records in a posted batch.
MaxLen == 2

Threads == 1..NumThreads

\* ------------------------------------------------------------- JSON values

JInt(n) == [k |-> "int", n |-> n]
JFloat(n) == [k |-> "float", n |-> n]
JStr(s) == [k |-> "str", s |-> s]
\* The string "YYYY-MM-DDTHH:00:00", kept as its four numbers.
Iso(y, mo, d, h) == [k |-> "str", iso |-> <<y, mo, d, h>>]
Null == [k |-> "null"]
\* A date-time serialized by to_json: milliseconds since the epoch.
EpochMs(at) == [k |-> "epoch_ms", at |-> at]

\* Cells that only exist inside a DataFrame.
NaN == [k |-> "nan"]
NaT == [k |-> "nat"]
Datetime(at) == [k |-> "datetime", at |-> at]

\* ------------------------------------------------------------ the inputs

\* Key order of the posted objects: keys are written in this order, so the
\* first-seen column order of pd.DataFrame(list of dicts) follows it.
FieldOrder == <<"timestamp", "bytes">>

TsGood == Iso(2024, 1, 15, 10)
TsBad == JStr("not-a-date")

FieldValues(f) ==
  IF f = "timestamp" THEN {TsGood, TsBad} ELSE {JInt(7), JStr("a")}

Range(s) == {s[i] : i \in DOMAIN s}

Fields == Range(FieldOrder)

\* A log record: any subset of the fields, each with one of its values.
LogRecords ==
  UNION {{r \in [S -> UNION {FieldValues(f) : f \in S}] :
            \A f \in S : r[f] \in FieldValues(f)} : S \in SUBSET Fields}

Batches == UNION {[1..n -> LogRecords] : n \in 0..MaxLen}

\* ---------------------------------------------------------------- pandas

\* Cell of record i in column c as pd.DataFrame(list of dicts) first sees it:
\* a key the record does not have is a missing value.
RawCell(batch, i, c) == IF c \in DOMAIN batch[i] THEN batch[i][c] ELSE NaN

\* dtype pandas infers for a column: int64 when every record has an integer,
\* float64 when integers are mixed with missing values, object otherwise.
InferDtype(batch, c) ==
  LET cells == {RawCell(batch, i, c) : i \in DOMAIN batch}
  IN  IF \A v \in cells : v.k = "int" THEN "int64"
      ELSE IF \A v \in cells : v.k \in {"int", "nan"} THEN "float64"
      ELSE "object"

\* The value a cell takes in a column of the given dtype.
CastCell(v, dtype) ==
  IF dtype = "float64" /\ v.k = "int" THEN JFloat(v.n) ELSE v

\* pd.DataFrame(log_data) for a list of dicts: one row per record in the
\* order of the list, one column per key in first-seen order.
DataFrame(batch) ==
  LET cols == SelectSeq(FieldOrder, LAMBDA f : \E i \in DOMAIN batch : f \in DOMAIN batch[i])
  IN  [columns |-> cols,
       dtypes  |-> [c \in Range(cols) |-> InferDtype(batch, c)],
       rows    |-> [i \in DOMAIN batch |->
                      [c \in Range(cols) |-> CastCell(RawCell(batch, i, c), InferDtype(batch, c))]]]

\* df[c] = values with the given dtype: assigns an existing column in place,
\* appends a new one.  values is a sequence with one cell per row.
SetColumn(df, c, dtype, values) ==
  [columns |-> IF c \in Range(df.columns) THEN df.columns ELSE Append(df.columns, c),
   dtypes  |-> [d \in Range(df.columns) \cup {c} |-> IF d = c THEN dtype ELSE df.dtypes[d]],
   rows    |-> [i \in DOMAIN df.rows |->
                  [d \in Range(df.columns) \cup {c} |-> IF d = c THEN values[i] ELSE df.rows[i][d]]]]

IsLeap(y) == (y % 4 = 0 /\ y % 100 # 0) \/ y % 400 = 0

DaysInMonth(y, mo) ==
  IF mo = 2 THEN (IF IsLeap(y) THEN 29 ELSE 28)
  ELSE IF mo \in {4, 6, 9, 11} THEN 30 ELSE 31

\* Whether pd.to_datetime can parse the cell: a missing value becomes NaT, a
\* string must be a calendar date and an hour.
Parseable(v) ==
  \/ v.k = "nan"
  \/ /\ v.k = "str"
     /\ "iso" \in DOMAIN v
     /\ v.iso[2] \in 1..12
     /\ v.iso[3] \in 1..DaysInMonth(v.iso[1], v.iso[2])
     /\ v.iso[4] \in 0..23

ToDatetimeCell(v) == IF v.k = "nan" THEN NaT ELSE Datetime(v.iso)

\* Series.dt.hour
HourOf(at) == at[4]

\* Series.dt.dayofweek, Monday = 0.
DayOfWeek(at) ==
  LET t  == <<0, 3, 2, 5, 0, 3, 5, 1, 4, 6, 2, 4>>
      y  == IF at[2] < 3 THEN at[1] - 1 ELSE at[1]
      su == (y + (y \div 4) - (y \div 100) + (y \div 400) + t[at[2]] + at[3]) % 7
  IN  (su + 6) % 7

\* A .dt accessor over a datetime column: integers, or floats with NaN when the
\* column holds NaT.
DtColumn(df, part) ==
  LET anyNaT == \E i \in DOMAIN df.rows : df.rows[i]["timestamp"].k = "nat"
  IN  [dtype  |-> IF anyNaT THEN "float64" ELSE "int64",
       values |-> [i \in DOMAIN df.rows |->
                     LET v == df.rows[i]["timestamp"]
                     IN  IF v.k = "nat" THEN NaN
                         ELSE LET n == IF part = "hour" THEN HourOf(v.at) ELSE DayOfWeek(v.at)
                              IN  IF anyNaT THEN JFloat(n) ELSE JInt(n)]]

\* df.select_dtypes(include=['number']).columns
NumberColumns(df) == SelectSeq(df.columns, LAMBDA c : df.dtypes[c] \in {"int64", "float64"})

\* df[cols]: the columns named, every row kept.
Project(df, cols) ==
  [columns |-> cols,
   rows    |-> [i \in DOMAIN df.rows |-> [c \in Range(cols) |-> df.rows[i][c]]]]

\* One cell as df.to_json(orient='records') writes it and json.loads reads it.
ToJsonCell(v) ==
  IF v.k \in {"nan", "nat"} THEN Null
  ELSE IF v.k = "datetime" THEN EpochMs(v.at)
  ELSE v

\* to_json writing the rows last to first.
ToJsonRecordsReversed(df) ==
  [i \in DOMAIN df.rows |->
     [c \in Range(df.columns) |-> ToJsonCell(df.rows[Len(df.rows) + 1 - i][c])]]

\* df.to_json(orient='records') read back: one object per row, in row order,
\* with every column of the frame.
ToJsonRecords(df) ==
  [i \in DOMAIN df.rows |-> [c \in Range(df.columns) |-> ToJsonCell(df.rows[i][c])]]

\* ----------------------------------------------------------- HTTP requests

Absent == [kind |-> "absent"]
Malformed == [kind |-> "malformed"]
JArray(items) == [kind |-> "array", items |-> items]

\* POST /analyze as a client can send it: a JSON array of records, nothing, or
\* bytes that are not JSON, with or without the JSON content type.
AnalyzeRequests ==
  {[ctype |-> "json", body |-> b] : b \in {JArray(x) : x \in Batches} \cup {Absent, Malformed}}
    \cup {[ctype |-> "other", body |-> Absent]}

NoRequest == [kind |-> "none"]
NoFrame == [kind |-> "none"]
NoMatrix == [kind |-> "none"]
NoResult == [kind |-> "none"]
NoResponse == [kind |-> "none"]

\* jsonify({'error': message})
ErrorBody(message) == [error |-> message]

\* The response werkzeug writes for an HTTPException raised outside the view's
\* own handlers: an HTML page, not a JSON object.
HttpError(status) == [status |-> status, body |-> [html |-> status]]

\* What Request.get_json answers when the content type is not JSON: None in
\* Flask before 2.1, a 400 in 2.1 and 2.2, a 415 from 2.3 on.  The repository
\* pins no version.
MimeOutcomes == {"none", "bad_request", "unsupported_media_type"}

MimeStatus(mime) == IF mime = "bad_request" THEN 400 ELSE 415

\* Request.get_json(silent): the parsed body, None, or an HTTP error.
GetJson(req, silent, mime) ==
  IF req.ctype # "json"
    THEN IF silent \/ mime = "none" THEN [value |-> Null] ELSE [abort |-> MimeStatus(mime)]
    ELSE IF req.body.kind \in {"absent", "malformed"}
           THEN IF silent THEN [value |-> Null] ELSE [abort |-> 400]
           ELSE [value |-> req.body]

JObject(fields) == [kind |-> "object", fields |-> fields]

\* Python's `not value` for a JSON value.
Falsy(value) ==
  IF "k" \in DOMAIN value
    THEN \/ value.k = "null"
         \/ value.k = "int" /\ value.n = 0
         \/ value.k = "str" /\ "s" \in DOMAIN value /\ value.s = ""
    ELSE \/ value.kind = "array" /\ Len(value.items) = 0
         \/ value.kind = "object" /\ DOMAIN value.fields = {}

\* An exception of the given type and text, raised in the given call.
Raised(type, msg, in) == [exc |-> [type |-> type, msg |-> msg], in |-> in]

\* app.py:26-42, the part of the try block before the detector is called:
\* the frame, the timestamp columns, the numerical columns and the dummy
\* feature, or the exception that ends it.
Derive(batch) ==
  LET df0 == DataFrame(batch)
      hasTs == "timestamp" \in Range(df0.columns)
      bad == hasTs /\ \E i \in DOMAIN df0.rows : ~Parseable(df0.rows[i]["timestamp"])
      df1 == SetColumn(df0, "timestamp", "datetime64",
                       [i \in DOMAIN df0.rows |-> ToDatetimeCell(df0.rows[i]["timestamp"])])
      hr == DtColumn(df1, "hour")
      df2 == SetColumn(df1, "hour", hr.dtype, hr.values)
      dw == DtColumn(df2, "dayofweek")
      df3 == IF hasTs THEN SetColumn(df2, "day_of_week", dw.dtype, dw.values) ELSE df0
      cols == NumberColumns(df3)
      df4 == SetColumn(df3, "dummy_feature", "int64", [i \in DOMAIN df3.rows |-> JInt(i - 1)])
  IN  IF bad THEN Raised("ValueError", "Unknown datetime string format", "to_datetime")
      ELSE IF Len(cols) = 0
             THEN [df |-> df4, numerical_cols |-> <<"dummy_feature">>]
             ELSE [df |-> df3, numerical_cols |-> cols]

\* The last except clause answering with the exception's text.
HandleExceptionLeaky(e) ==
  IF e.type \in {"EmptyDataError", "KeyError"}
    THEN [response |-> [status |-> 400, body |-> ErrorBody("Invalid log data format: " \o e.msg)],
          log |-> {}]
    ELSE [response |-> [status |-> 500, body |-> ErrorBody("An unexpected error occurred: " \o e.msg)],
          log |-> {"An unexpected error occurred: " \o e.msg}]

\* app.py:52-56: the two except clauses.  log is what app.logger.error adds.
HandleException(e) ==
  IF e.type \in {"EmptyDataError", "KeyError"}
    THEN [response |-> [status |-> 400, body |-> ErrorBody("Invalid log data format: " \o e.msg)],
          log |-> {}]
    ELSE [response |-> [status |-> 500, body |-> ErrorBody("An internal server error occurred")],
          log |-> {"An unexpected error occurred: " \o e.msg}]

\* app.py:46-50: the labels become the is_anomaly column and the frame is
\* returned as a list of records.
Annotated(df, labels) ==
  [status |-> 200,
   body   |-> [records |-> ToJsonRecords(
                 SetColumn(df, "is_anomaly", "int64", [i \in DOMAIN labels |-> JInt(labels[i])]))]]

\* ------------------------------------------------------------------ state

VARIABLES
  pc,         \* per thread: where it stands in the call it is serving
  op,         \* per thread: the detector method its caller invoked
  request,    \* per thread: the POST /analyze request, NoRequest for a direct call
  df,         \* per thread: the frame of analyze_logs
  X,          \* per thread: the matrix passed to the detector
  result,     \* per thread: what the detector call or the try block produced
  response,   \* per thread: the HTTP response
  log,        \* app.logger: the error lines written
  model,      \* detector.model, the IsolationForest
  is_fitted,  \* detector.is_fitted
  enhancer    \* the last exchange with the prompt-enrichment service

vars == <<pc, op, request, df, X, result, response, log, model, is_fitted, enhancer>>

NoExchange == [kind |-> "none"]

\* anomaly_detector.py:20-21 and app.py:12: one detector, not fitted; every
\* thread idle.
Init ==
  /\ pc = [t \in Threads |-> "idle"]
  /\ op = [t \in Threads |-> "none"]
  /\ request = [t \in Threads |-> NoRequest]
  /\ df = [t \in Threads |-> NoFrame]
  /\ X = [t \in Threads |-> NoMatrix]
  /\ result = [t \in Threads |-> NoResult]
  /\ response = [t \in Threads |-> NoResponse]
  /\ log = {}
  /\ model = [src |-> {}, busy |-> {}]
  /\ is_fitted = FALSE
  /\ enhancer = NoExchange

\* ------------------------------------------------------- the detector

HasNaN(m) == \E i \in DOMAIN m.rows : \E c \in Range(m.columns) : m.rows[i][c].k = "nan"

\* The label vectors IsolationForest.predict can return for a matrix: one of
\* -1 and 1 per row.
LabelVectors(m) == [DOMAIN m.rows -> {-1, 1}]

\* The call of thread t ends with this result.  For a request it is the end of
\* the try block of analyze_logs: the response is the annotated frame, or what
\* the except clauses make of the exception.
Finish(t, res) ==
  /\ pc' = [pc EXCEPT ![t] = "done"]
  /\ result' = [result EXCEPT ![t] = res]
  /\ IF request[t] = NoRequest
       THEN UNCHANGED <<response, log>>
       ELSE IF "exc" \in DOMAIN res
              THEN /\ response' = [response EXCEPT ![t] = HandleException(res.exc).response]
                   /\ log' = log \cup HandleException(res.exc).log
              ELSE /\ response' = [response EXCEPT ![t] = Annotated(df[t], res.labels)]
                   /\ UNCHANGED log

\* anomaly_detector.py:30, entering self.model.fit(data).  check_array rejects
\* a matrix with NaN in the scikit-learn versions whose IsolationForest does
\* not take missing values; the others go on.  From here the ensemble is being
\* rebuilt from this thread's data.
FitBegin(t) ==
  /\ pc[t] = "fit"
  /\ \/ /\ HasNaN(X[t])
        /\ Finish(t, Raised("ValueError", "Input X contains NaN.", "fit"))
        /\ UNCHANGED <<model, is_fitted>>
     \/ /\ model' = [src  |-> IF model.busy = {} THEN {t} ELSE model.src \cup {t},
                     busy |-> model.busy \cup {t}]
        /\ pc' = [pc EXCEPT ![t] = "fitting"]
        /\ UNCHANGED <<result, response, log, is_fitted>>
  /\ UNCHANGED <<op, request, df, X, enhancer>>

\* anomaly_detector.py:30, self.model.fit(data) returns.
FitEnd(t) ==
  /\ pc[t] = "fitting"
  /\ model' = [model EXCEPT !.busy = @ \ {t}]
  /\ pc' = [pc EXCEPT ![t] = "mark"]
  /\ UNCHANGED <<op, request, df, X, result, response, log, is_fitted, enhancer>>

\* anomaly_detector.py:31, self.is_fitted = True; fit returns, and fit_predict
\* goes on to predict (anomaly_detector.py:57-58).
MarkFitted(t) ==
  /\ pc[t] = "mark"
  /\ is_fitted' = TRUE
  /\ IF op[t] = "fit"
       THEN Finish(t, [fitted |-> TRUE])
       ELSE /\ pc' = [pc EXCEPT ![t] = "predict"]
            /\ UNCHANGED <<result, response, log>>
  /\ UNCHANGED <<op, request, df, X, model, enhancer>>

\* Whether the ensemble is the product of one completed fit.
Settled == model.busy = {} /\ Cardinality(model.src) = 1

FittedBy == CHOOSE u \in model.src : TRUE

\* predict without the is_fitted test of anomaly_detector.py:43.
PredictUnguarded(t) ==
  /\ pc[t] = "predict"
  /\ \/ /\ ~Settled
        /\ Finish(t, Raised("IndexError", "index out of bounds", "predict"))
     \/ /\ Settled
        /\ Len(X[FittedBy].columns) # Len(X[t].columns)
        /\ Finish(t, Raised("ValueError", "X has a different number of features", "predict"))
     \/ /\ \/ ~Settled
           \/ Settled /\ Len(X[FittedBy].columns) = Len(X[t].columns)
        /\ \E l \in LabelVectors(X[t]) :
             Finish(t, [labels |-> l, src |-> model.src, mid |-> model.busy # {}])
  /\ UNCHANGED <<op, request, df, X, model, is_fitted, enhancer>>

\* anomaly_detector.py:43-45.  Not fitted: RuntimeError.  Otherwise
\* self.model.predict(data): scikit-learn compares the matrix with the one the
\* ensemble was fitted on (a different number of features is a ValueError,
\* different feature names are one from 1.2 on) and rejects NaN where fit
\* does.  An ensemble that another thread is rebuilding, or that two
\* overlapping fits have written, is read in whatever state its attributes
\* are in: the trees of one fit indexed with the path lengths of another give
\* an IndexError or labels of no single fit.  The labels carry the fits they
\* come from.
Predict(t) ==
  /\ pc[t] = "predict"
  /\ \/ /\ ~is_fitted
        /\ Finish(t, Raised("RuntimeError", "Model has not been fitted yet.", "predict"))
     \/ /\ is_fitted
        /\ Settled
        /\ Len(X[FittedBy].columns) # Len(X[t].columns)
        /\ Finish(t, Raised("ValueError", "X has a different number of features", "predict"))
     \/ /\ is_fitted
        /\ Settled
        /\ X[FittedBy].columns # X[t].columns
        /\ Finish(t, Raised("ValueError", "The feature names should match", "predict"))
     \/ /\ is_fitted
        /\ HasNaN(X[t])
        /\ Finish(t, Raised("ValueError", "Input X contains NaN.", "predict"))
     \/ /\ is_fitted
        /\ ~Settled
        /\ Finish(t, Raised("IndexError", "index out of bounds", "predict"))
     \/ /\ is_fitted
        /\ \/ ~Settled
           \/ Settled /\ Len(X[FittedBy].columns) = Len(X[t].columns)
        /\ \E l \in LabelVectors(X[t]) :
             Finish(t, [labels |-> l, src |-> model.src, mid |-> model.busy # {}])
  /\ UNCHANGED <<op, request, df, X, model, is_fitted, enhancer>>

\* ------------------------------------------------------- POST /analyze

\* app.py:22-45, up to the call of detector.fit_predict: the body is read, an
\* empty one is refused, and the frame and the matrix are derived.
Analyze(t) ==
  /\ pc[t] = "idle"
  /\ \E req \in AnalyzeRequests, mime \in MimeOutcomes :
       LET got == GetJson(req, FALSE, mime)
           d   == Derive(got.value.items)
       IN  /\ request' = [request EXCEPT ![t] = req]
           /\ IF "abort" \in DOMAIN got
                THEN /\ response' = [response EXCEPT ![t] = HttpError(got.abort)]
                     /\ pc' = [pc EXCEPT ![t] = "done"]
                     /\ UNCHANGED <<op, df, X, result, log>>
              ELSE IF Falsy(got.value)
                THEN /\ response' = [response EXCEPT ![t] =
                                       [status |-> 400, body |-> ErrorBody("No log data provided")]]
                     /\ pc' = [pc EXCEPT ![t] = "done"]
                     /\ UNCHANGED <<op, df, X, result, log>>
              ELSE IF "exc" \in DOMAIN d
                THEN /\ response' = [response EXCEPT ![t] = HandleException(d.exc).response]
                     /\ log' = log \cup HandleException(d.exc).log
                     /\ result' = [result EXCEPT ![t] = d]
                     /\ pc' = [pc EXCEPT ![t] = "done"]
                     /\ UNCHANGED <<op, df, X>>
              ELSE /\ df' = [df EXCEPT ![t] = d.df]
                   /\ X' = [X EXCEPT ![t] = Project(d.df, d.numerical_cols)]
                   /\ op' = [op EXCEPT ![t] = "fit_predict"]
                   /\ pc' = [pc EXCEPT ![t] = "fit"]
                   /\ UNCHANGED <<result, response, log>>
  /\ UNCHANGED <<model, is_fitted, enhancer>>

Next ==
  \E t \in Threads :
    \/ Analyze(t)
    \/ FitBegin(t)
    \/ FitEnd(t)
    \/ MarkFitted(t)
    \/ Predict(t)

Spec == Init /\ [][Next]_vars

\* ------------------------------------------- the detector called directly

\* The matrices analyze_logs derives from the batches it accepts.
Matrices ==
  {Project(Derive(b).df, Derive(b).numerical_cols) :
     b \in {c \in Batches : Len(c) > 0 /\ "df" \in DOMAIN Derive(c)}}

\* A caller invokes one method of the detector with a matrix:
\* anomaly_detector.py:23 (fit), :33 (predict), :47 (fit_predict).
Call(t, method, m) ==
  /\ pc[t] = "idle"
  /\ op' = [op EXCEPT ![t] = method]
  /\ X' = [X EXCEPT ![t] = m]
  /\ pc' = [pc EXCEPT ![t] = IF method = "predict" THEN "predict" ELSE "fit"]
  /\ UNCHANGED <<request, df, result, response, log, model, is_fitted, enhancer>>

CallFit(t) == \E m \in Matrices : Call(t, "fit", m)

CallPredict(t) == \E m \in Matrices : Call(t, "predict", m)

CallFitPredict(t) == \E m \in Matrices : Call(t, "fit_predict", m)

NextDetector ==
  \E t \in Threads :
    \/ CallFit(t)
    \/ CallPredict(t)
    \/ CallFitPredict(t)
    \/ FitBegin(t)
    \/ FitEnd(t)
    \/ MarkFitted(t)
    \/ Predict(t)

SpecDetector == Init /\ [][NextDetector]_vars

\* ----------------------------------------- the prompt-enrichment service

\* Context keys in sorted order.
KeyOrder == <<"a", "b">>

Prompts == {JStr(""), JStr("abc"), Null}

Contexts ==
  {JObject([k \in S |-> JInt(1)]) : S \in SUBSET Range(KeyOrder)} \cup {Null, JStr("x")}

\* The JSON objects a client posts: prompt and context present or not.
EnhanceObjects ==
  {JObject(f) : f \in UNION {
     {g \in [S -> Prompts \cup Contexts] :
        /\ "prompt" \in S => g["prompt"] \in Prompts
        /\ "context" \in S => g["context"] \in Contexts} : S \in SUBSET {"prompt", "context"}}}

EnhanceRequests ==
  [ctype : {"json", "other"},
   body  : EnhanceObjects \cup {Absent, Malformed, JArray(<<JInt(1)>>)}]

\* dict.get(key, default)
Get(obj, key, default) == IF key \in DOMAIN obj.fields THEN obj.fields[key] ELSE default

RECURSIVE Join(_)
\* ', '.join(keys)
Join(keys) ==
  IF Len(keys) = 0 THEN ""
  ELSE IF Len(keys) = 1 THEN keys[1]
  ELSE keys[1] \o ", " \o Join(Tail(keys))

\* sorted(context.keys())
SortedKeys(context) == SelectSeq(KeyOrder, LAMBDA k : k \in DOMAIN context.fields)

\* An exception no handler catches: Flask answers 500 with its error page.
Unhandled == HttpError(500)

\* prompt_enhancer.py:13-24.
EnhancePrompt(req) ==
  LET got     == GetJson(req, TRUE, "none").value
      data    == IF Falsy(got) THEN JObject(<<>>) ELSE got
      prompt  == Get(data, "prompt", JStr(""))
      ctx     == Get(data, "context", Null)
      context == IF Falsy(ctx) THEN JObject(<<>>) ELSE ctx
      keys    == IF Falsy(context) THEN "none" ELSE Join(SortedKeys(context))
  IN  IF data.kind # "object" THEN Unhandled
      ELSE IF Falsy(prompt)
        THEN [status |-> 400, body |-> ErrorBody("Prompt is required")]
      ELSE IF "kind" \notin DOMAIN context THEN Unhandled
      ELSE [status |-> 200,
            body   |-> [enhanced |-> JStr(prompt.s \o "\n\n[context keys: " \o keys \o "]")]]

\* prompt-enhancer.py:7-12.
EchoPrompt(req, mime) ==
  LET got  == GetJson(req, FALSE, mime)
      data == got.value
  IN  IF "abort" \in DOMAIN got THEN HttpError(got.abort)
      ELSE IF "kind" \notin DOMAIN data \/ data.kind # "object" THEN Unhandled
      ELSE [status |-> 200, body |-> [enhanced |-> Get(data, "prompt", JStr(""))]]

\* POST / to services/prompt_enhancer.py.
Enhance ==
  \E req \in EnhanceRequests :
    /\ enhancer' = [service |-> "prompt_enhancer.py", request |-> req,
                    response |-> EnhancePrompt(req)]
    /\ UNCHANGED <<pc, op, request, df, X, result, response, log, model, is_fitted>>

\* POST / to services/prompt-enhancer.py.
Echo ==
  \E req \in EnhanceRequests, mime \in MimeOutcomes :
    /\ enhancer' = [service |-> "prompt-enhancer.py", request |-> req,
                    response |-> EchoPrompt(req, mime)]
    /\ UNCHANGED <<pc, op, request, df, X, result, response, log, model, is_fitted>>

NextEnhancer == Enhance \/ Echo

SpecEnhancer == Init /\ [][NextEnhancer]_vars

\* ------------------------------------------------------------ properties

\* The batch a request posted.
BatchOf(t) == request[t].body.items

\* Thread t has answered a request that carried a JSON array.
Answered(t) ==
  /\ pc[t] = "done"
  /\ request[t] # NoRequest
  /\ request[t].ctype = "json"
  /\ request[t].body.kind = "array"

Accepted(t) == Answered(t) /\ response[t].status = 200

NotFitted == Raised("RuntimeError", "Model has not been fitted yet.", "predict")

\* C1: when the requests in flight carry different batches, the labels
\* returned to a request come from a model fitted on that request's own batch:
\* its predict never reads an ensemble that another request fitted or is
\* fitting.
C1_LabelsFromOwnFit ==
  \A t \in Threads :
    (/\ Answered(t)
     /\ "labels" \in DOMAIN result[t]
     /\ \A u \in Threads \ {t} : request[u] # NoRequest => request[u].body # request[t].body)
    => (result[t].src = {t} /\ ~result[t].mid)

\* An input value and the output value that stands for it: the same JSON
\* value, the same number, or the same instant.
SameValue(a, b) ==
  \/ a = b
  \/ a.k = "int" /\ b.k = "float" /\ a.n = b.n
  \/ "iso" \in DOMAIN a /\ b.k = "epoch_ms" /\ b.at = a.iso

\* C2: an accepted batch of N records is answered with N records in the input
\* order, record i of the output standing for record i of the input, each
\* with is_anomaly equal to -1 or 1.
C2_OneFlaggedRecordPerInputRecord ==
  \A t \in Threads :
    Accepted(t) =>
      LET out == response[t].body.records
      IN  /\ Len(out) = Len(BatchOf(t))
          /\ \A i \in DOMAIN out :
               /\ \A f \in DOMAIN BatchOf(t)[i] :
                    f \in DOMAIN out[i] /\ SameValue(BatchOf(t)[i][f], out[i][f])
               /\ "is_anomaly" \in DOMAIN out[i]
               /\ out[i]["is_anomaly"] \in {JInt(-1), JInt(1)}

\* A batch of two different records has been accepted.
C2_Witness ==
  \E t \in Threads :
    /\ Accepted(t)
    /\ Len(BatchOf(t)) = 2
    /\ BatchOf(t)[1] # BatchOf(t)[2]
    /\ "bytes" \in DOMAIN BatchOf(t)[1]

\* C3: every field of an input record is in the corresponding output record
\* with the value it had, and is_anomaly is the only field added.
C3_RoundTrip ==
  \A t \in Threads :
    Accepted(t) =>
      LET out == response[t].body.records
      IN  \A i \in DOMAIN out :
            /\ DOMAIN out[i] = DOMAIN BatchOf(t)[i] \cup {"is_anomaly"}
            /\ \A f \in DOMAIN BatchOf(t)[i] \ {"is_anomaly"} : out[i][f] = BatchOf(t)[i][f]

\* Some record of the batch has a timestamp that cannot be parsed.
BadTimestamp(batch) ==
  \E i \in DOMAIN batch :
    "timestamp" \in DOMAIN batch[i] /\ ~Parseable(batch[i]["timestamp"])

\* C4: a batch with an unparseable timestamp is answered 400 with an error
\* message, never 500 and never with records.
C4_BadTimestampIs400 ==
  \A t \in Threads :
    (Answered(t) /\ BadTimestamp(BatchOf(t)))
    => (response[t].status = 400 /\ "error" \in DOMAIN response[t].body)

\* The records have different keys and a column selected as numeric has a
\* missing value.
MissingNumeric(batch) ==
  /\ Len(batch) > 0
  /\ "df" \in DOMAIN Derive(batch)
  /\ HasNaN(Project(Derive(batch).df, Derive(batch).numerical_cols))

\* C5: a batch whose selected numeric columns have a missing value is answered
\* 400 with an error message, never 200 and never 500.
C5_MissingNumericIs400 ==
  \A t \in Threads :
    (Answered(t) /\ MissingNumeric(BatchOf(t)))
    => (response[t].status = 400 /\ "error" \in DOMAIN response[t].body)

\* C6: a request with body [] or with no body is answered 400 with
\* {"error": "No log data provided"}.
C6_EmptyOrAbsentBodyIs400 ==
  \A t \in Threads :
    (/\ pc[t] = "done"
     /\ request[t] # NoRequest
     /\ request[t].body \in {Absent, JArray(<<>>)})
    => response[t] = [status |-> 400, body |-> ErrorBody("No log data provided")]

\* A call of fit or fit_predict by thread u has set is_fitted.
FitCompleted(u) ==
  /\ op[u] \in {"fit", "fit_predict"}
  /\ \/ pc[u] = "predict"
     \/ pc[u] = "done" /\ ("in" \in DOMAIN result[u] => result[u].in # "fit")

\* C7: a predict call ends with the not-fitted error exactly when no fit has
\* completed on the detector before it, and a fit_predict call never ends
\* with that error.
C7_NotFittedOnlyBeforeFit ==
  /\ [][\A t \in Threads :
          (pc[t] = "predict" /\ pc'[t] = "done")
          => ((result'[t] = NotFitted) <=> ~(\E u \in Threads : FitCompleted(u)))]_vars
  /\ [](\A t \in Threads : op[t] = "fit_predict" => result[t] # NotFitted)

\* A predict call made before any fit has failed and a fit_predict call has
\* returned labels.
C7_Witness ==
  \E t, u \in Threads :
    /\ op[t] = "predict" /\ result[t] = NotFitted
    /\ op[u] = "fit_predict" /\ pc[u] = "done" /\ "labels" \in DOMAIN result[u]

\* No column of the frame built from the batch is numeric and there is no
\* timestamp to derive one from.
NoNumeric(batch) ==
  \A c \in Range(DataFrame(batch).columns) :
    c # "timestamp" /\ InferDtype(batch, c) = "object"

\* C8: the matrix handed to the model has one row per record and at least one
\* column; without a numeric column it is the single column dummy_feature with
\* i in row i (from 0), and the request succeeds with a label per record.
C8_MatrixShapeAndFallback ==
  \A t \in Threads :
    (request[t] # NoRequest /\ X[t] # NoMatrix) =>
      /\ Len(X[t].rows) = Len(BatchOf(t))
      /\ Len(X[t].columns) >= 1
      /\ NoNumeric(BatchOf(t)) =>
           /\ X[t].columns = <<"dummy_feature">>
           /\ \A i \in DOMAIN X[t].rows : X[t].rows[i]["dummy_feature"] = JInt(i - 1)
           /\ pc[t] = "done" =>
                /\ response[t].status = 200
                /\ Len(response[t].body.records) = Len(BatchOf(t))

\* C9: a failure that the handler does not class as a data-format failure is
\* answered 500 with exactly the generic message, and its detail is in the
\* log.
C9_OtherFailuresAre500Generic ==
  \A t \in Threads :
    (/\ pc[t] = "done"
     /\ request[t] # NoRequest
     /\ "exc" \in DOMAIN result[t]
     /\ result[t].exc.type \notin {"EmptyDataError", "KeyError"})
    => /\ response[t] = [status |-> 500, body |-> ErrorBody("An internal server error occurred")]
       /\ ("An unexpected error occurred: " \o result[t].exc.msg) \in log

\* A request has failed inside the detector and has been answered 500.
C9_Witness ==
  \E t \in Threads :
    /\ pc[t] = "done"
    /\ request[t] # NoRequest
    /\ "exc" \in DOMAIN result[t]
    /\ result[t].exc.type = "ValueError"
    /\ X[t] # NoMatrix
    /\ response[t].status = 500

\* The request supplies a non-empty prompt: a JSON object, sent as JSON, whose
\* prompt is not empty.
PromptSupplied(req) ==
  /\ req.ctype = "json"
  /\ req.body.kind = "object"
  /\ "prompt" \in DOMAIN req.body.fields
  /\ ~Falsy(req.body.fields["prompt"])

\* C10: POST / without a non-empty prompt is answered 400 with
\* {"error": "Prompt is required"}, and an enhanced field is answered with 200
\* only to a request that supplies a non-empty prompt.
C10_PromptRequired ==
  enhancer # NoExchange =>
    /\ ~PromptSupplied(enhancer.request)
         => enhancer.response = [status |-> 400, body |-> ErrorBody("Prompt is required")]
    /\ (enhancer.response.status = 200 /\ "enhanced" \in DOMAIN enhancer.response.body)
         => PromptSupplied(enhancer.request)

====
